---- MODULE Spec2Model ----
(***************************************************************************)
(* BLE connection lifecycle manager (BLEController, second revision in     *)
(* src/src/bleController.ts, lines 408-1202): session, health monitor,     *)
(* reconnection supervisor and command facade.                             *)
(*                                                                         *)
(* Execution model: JavaScript run-to-completion.  One action of the model *)
(* is one macrotask (a host call, an adapter event or callback, a timer)   *)
(* together with every promise continuation it makes runnable, because     *)
(* those run as microtasks before the next macrotask.  Timers carry no     *)
(* clock: armed timers fire in any order.                                  *)
(*                                                                         *)
(* The radio adapter (noble) is the environment.  It answers a connect     *)
(* request either with the 'connect' event (link established) or with the  *)
(* error argument of the request's callback, as the controller's code      *)
(* expects; it answers discovery and write requests through their          *)
(* callbacks, and it emits 'disconnect' on link loss or on request.        *)
(***************************************************************************)
EXTENDS Integers, FiniteSets, Sequences, TLC

(* ------------------------------ bounds --------------------------------- *)
\* What the environment may do in one behaviour of each specification:
\* explicit connect() calls, disconnect() calls, commands, setter calls,
\* unsolicited link losses, failure answers to connect and discovery requests.
\* Spec: the session and the reconnection supervisor
SupConnects == 1
SupDisconnects == 2
SupLosses == 2
\* SpecBackoff: the supervisor's attempt counter and delay
BackoffSetters == 1
BackoffConnects == 1
BackoffLosses == 1
BackoffFaults == 2
\* SpecCmd: the command facade, one kind of disturbance per behaviour
CmdConnects == 1
CmdCommands == 1
CmdDisconnects == 1
CmdLosses == 1
CmdFaults == 1
CmdSetters == 1
\* SpecRecover: a command over a session that lost its link
RecConnects == 1
RecCommands == 1
RecLosses == 1
\* SpecHealFair: recovery after link losses
HealConnects == 1
HealLosses == 2
HealFaults == 1
\* SpecCmdFair: termination of a command
LiveConnects == 1
LiveCommands == 1
\* the history counters of a command saturate here
WriteCap == 5
\* identical leaked listener records are counted up to this many
MaxStale == 2
\* SpecSwitch: the auto-reconnect switch
SwitchConnects == 1
SwitchCommands == 1
SwitchLosses == 1
SwitchSetters == 1
\* SpecHealth: the ticks of the health monitor
HealthConnects == 1
HealthLosses == 2
HealthFaults == 1
HealthSetters == 1
\* SpecDiscover: service and characteristic discovery
DiscConnects == 1
DiscLosses == 1
DiscFaults == 1
\* SpecSelect: commands over what discovery selected
SelConnects == 1
SelCommands == 1
SelLosses == 1
SelFaults == 1
\* SpecMonitor: the health monitor under interval changes
MonConnects == 1
MonDisconnects == 1
MonLosses == 1
MonSetters == 3
\* readLampState: explicit connects, link losses, characteristic
\* selections and readLampState calls per behaviour
ReadConnects == 1
ReadLosses == 1
ReadSetters == 1
ReadCalls == 2
\* power state changes of the adapter
MaxStateChanges == 3
\* discover events delivered in one scan pass
MaxDevices == 3

(* ------------------------- program constants --------------------------- *)
maxReconnectionDelay == 30000
DefaultReconnectionDelay == 1000
MinReconnectionDelay == 500
DefaultMaxReconnectionAttempts == 10
DefaultMonitorIntervalMs == 10000
MinMonitorIntervalSeconds == 5
maxRetries == 3

(* ------------------------------ inputs --------------------------------- *)
\* Math.random() * 1000 lies in [0, 1000)
Jitters == {0, 999}
\* arguments the host passes to setInitialReconnectionDelay
InitialDelayArgs == {100, 2000, 40000}
\* arguments the host passes to setMaxReconnectionAttempts
MaxAttemptsArgs == {0, 1, 2}
\* arguments the host passes to setConnectionMonitorInterval
MonitorIntervalArgs == {-1, 0, 3, 30}

Null == "null"
Lamp == "lamp"
Services == {1, 2}
\* the lamp's characteristic objects: "ctl" and "ctl2" carry the control
\* UUID b35d95c66a68437eabe70ebffd8e0661 and can be written and read, "aux"
\* is another characteristic, without a write or read method
Chars == {"ctl", "aux", "ctl2"}

ControlUuid == "b35d"
OtherUuid == "a0a0"
Uuids == {ControlUuid, OtherUuid}

\* char.uuid
Uuid(ch) == IF ch = "aux" THEN OtherUuid ELSE ControlUuid

\* the characteristics a service reports, in the order of its forEach:
\* service 1 holds the control characteristic; service 2 holds "aux" and,
\* on a lamp that exposes the control UUID twice, a second characteristic
\* with that UUID
CharsOf(twin, svc) ==
  IF svc = 1 THEN <<"ctl">>
  ELSE IF twin THEN <<"aux", "ctl2">> ELSE <<"aux">>

IsControlUuid(ch) == Uuid(ch) = ControlUuid

\* the key under which a characteristic is stored (lines 755-759); the
\* adapter's characteristic objects carry no handle, so it is the UUID
Key(ch) == Uuid(ch)

HasWrite(ch) == ch # "aux"

HasRead(ch) == ch # "aux"

\* bytes the read callback may deliver
ReadData == {<<>>, <<0>>, <<1>>, <<2>>, <<1, 0>>, <<0, 1>>}

Min(a, b) == IF a < b THEN a ELSE b

Max(a, b) == IF a > b THEN a ELSE b

\* a JavaScript string value: text is its characters, Undefined the
\* missing value of an optional argument or property
Str(text) == [defined |-> TRUE, text |-> text]

Undefined == [defined |-> FALSE, text |-> <<>>]

\* what `if (v)` tests: undefined and the empty string are falsy
Truthy(v) == v.defined /\ v.text # <<>>

toLowerChar(c) ==
  CASE c = "L" -> "l" [] c = "A" -> "a" [] c = "M" -> "m" [] c = "P" -> "p"
    [] OTHER -> c

toLowerCase(s) == [i \in 1..Len(s) |-> toLowerChar(s[i])]

\* String.prototype.includes
includes(s, sub) ==
  \E i \in 0..(Len(s) - Len(sub)) : SubSeq(s, i + 1, i + Len(sub)) = sub

\* peripherals that advertise near the adapter: the lamp, with a hardware
\* address; a peripheral without display name and without address (what
\* macOS reports); a second named peripheral without address
LampAd ==
  [address |-> "aa:01", id |-> "id-lamp", localName |-> Str(<<"L", "a", "m", "p">>)]

AnonAd == [address |-> "", id |-> "id-anon", localName |-> Undefined]

PlugAd ==
  [address |-> "", id |-> "id-plug", localName |-> Str(<<"p", "l", "u", "g">>)]

Peripherals == {LampAd, AnonAd, PlugAd}

\* deviceFilter arguments of scanDevices
\* states the adapter reports (noble.state)
PowerStates ==
  {"unknown", "resetting", "unauthorized", "poweredOff", "poweredOn"}

DeviceFilterArgs ==
  {Undefined, Str(<<>>), Str(<<"l", "A", "M">>), Str(<<"a", "l">>)}

VARIABLES
  \* fields of BLEController
  isConnected, peripheral, characteristics, selectedCharacteristic,
  targetPeripheral, reconnectionAttempts, maxReconnectionAttempts,
  reconnectionDelay, connectionMonitorInterval, connectionMonitorIntervalMs,
  isReconnecting, autoReconnectEnabled,
  \* adapter and event loop
  linkState,          \* peripheral.state as the transport reports it
  calls,              \* bag of connect() invocations: listeners, request, discovery
  disconnectWaiters,  \* disconnect() calls waiting for the 'disconnect' event
  monitorTimers,      \* live setInterval timers of the health monitor
  monitorPeriodMs,    \* interval the timer held by connectionMonitorInterval
                      \* was armed with, 0 if it holds none
  backoffTimers,      \* background attemptReconnection calls in their backoff wait
  rescheduleTimers,   \* armed post-failure timers (line 917)
  cmd,                \* the turnLampOn / turnLampOff call in progress
  budget,             \* what the environment may still do; outage: the
                      \* lamp is out of reach, every connect request fails
  noble,              \* the adapter: power state, scanning flag, a scan
                      \* start that was requested and has not taken effect
  scan,               \* the scanDevices call: its closure and its promise
  gate,               \* the init call: its listener and its promise
  read,               \* the readLampState call and its promise
  select,             \* the last setLampControlCharacteristic call: its
                      \* argument and what it returned
  \* history
  initialDelay,       \* delay the host configured (default 1000)
  manualDisc,         \* disconnect() called and no explicit connect() since
  discStreak,         \* disconnect() calls that returned back to back
  lastFailDelay,      \* delay computed by the previous failed attempt, 0 if none
  consecFails         \* failed reconnection attempts since the last success

vars == <<isConnected, peripheral, characteristics, selectedCharacteristic,
          targetPeripheral, reconnectionAttempts, maxReconnectionAttempts,
          reconnectionDelay, connectionMonitorInterval,
          connectionMonitorIntervalMs, isReconnecting, autoReconnectEnabled,
          linkState, calls, disconnectWaiters, monitorTimers, monitorPeriodMs,
          backoffTimers,
          rescheduleTimers, cmd, budget, noble, scan, gate, read, select,
          initialDelay, manualDisc, discStreak, lastFailDelay, consecFails>>

\* the current state as one record, so that handlers compose as functions
State ==
  [isConnected |-> isConnected, peripheral |-> peripheral,
   characteristics |-> characteristics,
   selectedCharacteristic |-> selectedCharacteristic,
   targetPeripheral |-> targetPeripheral,
   reconnectionAttempts |-> reconnectionAttempts,
   maxReconnectionAttempts |-> maxReconnectionAttempts,
   reconnectionDelay |-> reconnectionDelay,
   connectionMonitorInterval |-> connectionMonitorInterval,
   connectionMonitorIntervalMs |-> connectionMonitorIntervalMs,
   isReconnecting |-> isReconnecting,
   autoReconnectEnabled |-> autoReconnectEnabled,
   linkState |-> linkState, calls |-> calls,
   disconnectWaiters |-> disconnectWaiters, monitorTimers |-> monitorTimers,
   monitorPeriodMs |-> monitorPeriodMs,
   backoffTimers |-> backoffTimers, rescheduleTimers |-> rescheduleTimers,
   cmd |-> cmd, budget |-> budget, noble |-> noble, scan |-> scan,
   gate |-> gate, read |-> read, select |-> select,
   initialDelay |-> initialDelay,
   manualDisc |-> manualDisc, discStreak |-> discStreak,
   lastFailDelay |-> lastFailDelay, consecFails |-> consecFails]

\* no write in flight
NoWrite == [data |-> <<>>, char |-> Null]

\* data is the Buffer the command passes down, sent the char.write call
\* in flight; switchedOff: the command was called on a disconnected session
\* with a remembered target and automatic reconnection disabled
IdleCmd ==
  [pc |-> "idle", op |-> "none", data |-> <<>>, retry |-> 0, sent |-> NoWrite,
   writes |-> 0, failed |-> 0, wroteOk |-> FALSE, result |-> "none",
   clean |-> FALSE, switchedOff |-> FALSE]

\* the adapter after init() succeeded
IdleAdapter == [state |-> "poweredOn", scanning |-> FALSE, startPending |-> FALSE]

\* no scanDevices call yet; the fields are the locals of its closure
\* (devices, isResolved, scanTimeout), the listeners it has attached,
\* the first of its two timers, and what its promise settled with
IdleScan ==
  [pc |-> "idle", deviceFilter |-> Undefined, devices |-> <<>>,
   isResolved |-> FALSE, listeners |-> {}, firstTimer |-> FALSE,
   scanTimeout |-> FALSE, result |-> <<>>, resolves |-> 0, fired |-> FALSE,
   by |-> "none"]

\* no init call yet; listener: onStateChange is attached; settles counts
\* the resolve and reject calls; at and first remember the adapter state
\* at the call and the first state change the listener observed
IdleGate ==
  [pc |-> "idle", listener |-> FALSE, settles |-> 0, at |-> "none",
   first |-> "none"]

\* no readLampState call in progress; reads counts the char.read calls of
\* the current call, failure names the branch that returned null, error
\* and data are what the read callback received
IdleRead ==
  [pc |-> "idle", result |-> "none", reads |-> 0, failure |-> "none",
   answered |-> FALSE, error |-> FALSE, data |-> <<>>]

\* no setLampControlCharacteristic call made yet
IdleSelect == [uuid |-> "none", returned |-> "none"]

NoBudget ==
  [connects |-> 0, disconnects |-> 0, cmds |-> 0, setters |-> 0,
   losses |-> 0, faults |-> 0, power |-> 0, reads |-> 0, outage |-> FALSE,
   twin |-> FALSE]

\* the controller after construction (lines 410-426), nothing armed, with
\* the adapter in the given power state
InitAt(b, state) ==
  /\ budget = b
  /\ isConnected = FALSE
  /\ peripheral = Null
  /\ characteristics = {}
  /\ selectedCharacteristic = Null
  /\ targetPeripheral = Null
  /\ reconnectionAttempts = 0
  /\ maxReconnectionAttempts = DefaultMaxReconnectionAttempts
  /\ reconnectionDelay = DefaultReconnectionDelay
  /\ connectionMonitorInterval = FALSE
  /\ connectionMonitorIntervalMs = DefaultMonitorIntervalMs
  /\ isReconnecting = FALSE
  /\ autoReconnectEnabled = TRUE
  /\ linkState = "disconnected"
  /\ calls = <<>>
  /\ disconnectWaiters = 0
  /\ monitorTimers = 0
  /\ monitorPeriodMs = 0
  /\ backoffTimers = 0
  /\ rescheduleTimers = 0
  /\ cmd = IdleCmd
  /\ select = IdleSelect
  /\ noble = [IdleAdapter EXCEPT !.state = state]
  /\ scan = IdleScan
  /\ gate = IdleGate
  /\ read = IdleRead
  /\ initialDelay = DefaultReconnectionDelay
  /\ manualDisc = FALSE
  /\ discStreak = 0
  /\ lastFailDelay = 0
  /\ consecFails = 0

\* the controller once init() has succeeded
InitWith(b) == InitAt(b, "poweredOn")

(* ------------------- the bag of connect() invocations ------------------ *)
\* One record per connect() invocation that still has something attached:
\*   owner  who awaits the promise: "host", "sup" (a background
\*          attemptReconnection), "cmd" (an attemptReconnection awaited by
\*          the command); "none" once the promise is settled
\*   req    the adapter has not answered peripheral.connect yet
\*   lc     its onConnect listener is attached to the peripheral
\*   ld     its onDisconnect listener is attached to the peripheral
\*   disc   its discovery: "none", "svc" (discoverServices pending),
\*          "chr" (discoverCharacteristics pending for the services in pend)
NewCall(owner) ==
  [owner |-> owner, req |-> TRUE, lc |-> TRUE, ld |-> TRUE, disc |-> "none",
   pend |-> {}]

IsDead(r) ==
  r.owner = "none" /\ ~r.req /\ ~r.lc /\ ~r.ld /\ r.disc = "none"

Copies(B, r) == IF r \in DOMAIN B THEN B[r] ELSE 0

Cap(r, n) == IF r.owner = "none" THEN Min(n, MaxStale) ELSE n

AddCall(B, r) ==
  IF IsDead(r) THEN B
  ELSE [x \in DOMAIN B \cup {r} |->
          IF x = r THEN Cap(r, Copies(B, r) + 1) ELSE B[x]]

DelCall(B, r) ==
  [x \in {y \in DOMAIN B : y # r \/ B[y] > 1} |->
     IF x = r THEN B[x] - 1 ELSE B[x]]

RECURSIVE SumOver(_, _)
SumOver(B, S) ==
  IF S = {} THEN 0
  ELSE LET r == CHOOSE x \in S : TRUE IN B[r] + SumOver(B, S \ {r})

\* number of invocations of the bag that lie in the set S
Count(B, S) == SumOver(B, DOMAIN B \cap S)

HasListener(r) == r.lc

HasDiscListener(r) == r.ld

\* what an event does to the listeners of one invocation: onConnect removes
\* itself and starts discovery (lines 647-651), onDisconnect removes itself
\* (line 670)
Emit(r, event) ==
  IF event = "connect"
  THEN IF r.lc THEN [r EXCEPT !.lc = FALSE, !.disc = "svc"] ELSE r
  ELSE [r EXCEPT !.ld = FALSE]

\* the event reaches every invocation of the bag
MapCalls(B, event) ==
  LET img == {Emit(r, event) : r \in DOMAIN B}
      live == {x \in img : ~IsDead(x)}
  IN [x \in live |->
        Cap(x, SumOver(B, {r \in DOMAIN B : Emit(r, event) = x}))]

(* ----------------------------- commit --------------------------------- *)
Assign(r) ==
  /\ isConnected' = r.isConnected
  /\ peripheral' = r.peripheral
  /\ characteristics' = r.characteristics
  /\ selectedCharacteristic' = r.selectedCharacteristic
  /\ targetPeripheral' = r.targetPeripheral
  /\ reconnectionAttempts' = r.reconnectionAttempts
  /\ maxReconnectionAttempts' = r.maxReconnectionAttempts
  /\ reconnectionDelay' = r.reconnectionDelay
  /\ connectionMonitorInterval' = r.connectionMonitorInterval
  /\ connectionMonitorIntervalMs' = r.connectionMonitorIntervalMs
  /\ isReconnecting' = r.isReconnecting
  /\ autoReconnectEnabled' = r.autoReconnectEnabled
  /\ linkState' = r.linkState
  /\ calls' = r.calls
  /\ disconnectWaiters' = r.disconnectWaiters
  /\ monitorTimers' = r.monitorTimers
  /\ monitorPeriodMs' = r.monitorPeriodMs
  /\ backoffTimers' = r.backoffTimers
  /\ rescheduleTimers' = r.rescheduleTimers
  /\ cmd' = r.cmd
  /\ select' = r.select
  /\ budget' = r.budget
  /\ noble' = r.noble
  /\ scan' = r.scan
  /\ gate' = r.gate
  /\ read' = r.read
  /\ initialDelay' = r.initialDelay
  /\ manualDisc' = r.manualDisc
  /\ lastFailDelay' = r.lastFailDelay
  /\ consecFails' = r.consecFails

\* a step that is not the return of a disconnect() call ends the streak
Commit(r) == Assign(r) /\ discStreak' = 0

CommitDisc(r) == Assign(r) /\ discStreak' = r.discStreak

\* something other than a successful adapter answer happened while the
\* command was running
Dirty(s) == [s EXCEPT !.cmd.clean = FALSE]

Spend(s, kind) == Dirty([s EXCEPT !.budget[kind] = @ - 1])

(* -------------------------- health monitor ----------------------------- *)
\* stopConnectionMonitoring() that drops the handle without clearInterval
stopConnectionMonitoringKeepsTimer(s) ==
  IF s.connectionMonitorInterval
  THEN [s EXCEPT !.connectionMonitorInterval = FALSE, !.monitorPeriodMs = 0]
  ELSE s

\* stopConnectionMonitoring() (lines 845-851)
stopConnectionMonitoring(s) ==
  IF s.connectionMonitorInterval
  THEN [s EXCEPT !.connectionMonitorInterval = FALSE, !.monitorTimers = @ - 1,
                 !.monitorPeriodMs = 0]
  ELSE s

\* startConnectionMonitoring() that does not clear the running interval
startConnectionMonitoringNoStop(s) ==
  [s EXCEPT !.connectionMonitorInterval = TRUE, !.monitorTimers = @ + 1,
            !.monitorPeriodMs = s.connectionMonitorIntervalMs]

\* startConnectionMonitoring() (lines 832-840)
startConnectionMonitoring(s) ==
  LET t == stopConnectionMonitoring(s)
  IN [t EXCEPT !.connectionMonitorInterval = TRUE, !.monitorTimers = @ + 1,
               !.monitorPeriodMs = t.connectionMonitorIntervalMs]

(* ---------------------- reconnection supervisor ------------------------ *)
\* the caller that awaited attemptReconnection() goes on: the command waits
\* 1000 ms for the link to stabilise (lines 993-994, 1044-1045); the other
\* callers do not await the call
awaitStabilize(s, awaited) ==
  IF awaited THEN [s EXCEPT !.cmd.pc = "stabilize"] ELSE s

\* attemptReconnection() up to its first await (lines 882-899)
attemptReconnection(s, awaited) ==
  IF s.isReconnecting \/ s.targetPeripheral = Null \/ ~s.autoReconnectEnabled
  THEN awaitStabilize(s, awaited)
  ELSE LET t == [s EXCEPT !.isReconnecting = TRUE,
                          !.reconnectionAttempts = @ + 1]
       IN IF t.reconnectionAttempts > t.maxReconnectionAttempts
          THEN awaitStabilize([t EXCEPT !.isReconnecting = FALSE], awaited)
          ELSE IF awaited
               THEN [t EXCEPT !.cmd.pc = "backoff"]
               ELSE [t EXCEPT !.backoffTimers = @ + 1]

\* Exponential backoff with jitter (lines 909-912)
nextDelay(d, jitter) == Min(d * 2 + jitter, maxReconnectionDelay)

\* the catch branch of attemptReconnection() (lines 905-922)
reconnectFailed(s, awaited, jitter) ==
  LET d == nextDelay(s.reconnectionDelay, jitter)
      t == [s EXCEPT !.reconnectionDelay = d,
                     !.isReconnecting = FALSE,
                     !.rescheduleTimers = @ + 1,
                     !.lastFailDelay = d,
                     !.consecFails = Min(@ + 1, s.maxReconnectionAttempts)]
  IN awaitStabilize(t, awaited)

(* ------------------------------ session -------------------------------- *)
\* the promise of a connect() invocation is fulfilled: its awaiter goes on
resolved(s, owner) ==
  IF owner = "none" THEN s
  ELSE awaitStabilize([s EXCEPT !.lastFailDelay = 0, !.consecFails = 0],
                      owner = "cmd")

\* the promise of a connect() invocation is rejected: its awaiter goes on
rejected(s, owner, jitter) ==
  IF owner \in {"sup", "cmd"}
  THEN reconnectFailed(s, owner = "cmd", jitter)
  ELSE s

\* connect(p) up to peripheral.connect (lines 628-692); with p = null the
\* executor throws on peripheral.address before any assignment
connect(s, p, owner, jitter) ==
  IF p = Null
  THEN rejected(s, owner, jitter)
  ELSE [s EXCEPT !.targetPeripheral = p,
                 !.reconnectionAttempts = 0,
                 !.calls = AddCall(@, NewCall(owner))]

\* an onConnect listener that does not store the peripheral
onConnectNoPeripheral(s) ==
  IF Count(s.calls, {r \in DOMAIN s.calls : HasListener(r)}) = 0 THEN s
  ELSE [s EXCEPT !.isConnected = TRUE,
                 !.isReconnecting = FALSE,
                 !.reconnectionAttempts = 0,
                 !.reconnectionDelay = DefaultReconnectionDelay,
                 !.calls = MapCalls(@, "connect")]

\* the 'connect' event: every attached onConnect listener runs up to its
\* await of discoverServicesAndCharacteristics (lines 640-651)
onConnect(s) ==
  IF Count(s.calls, {r \in DOMAIN s.calls : HasListener(r)}) = 0 THEN s
  ELSE [s EXCEPT !.isConnected = TRUE,
                 !.peripheral = Lamp,
                 !.isReconnecting = FALSE,
                 !.reconnectionAttempts = 0,
                 !.reconnectionDelay = DefaultReconnectionDelay,
                 !.calls = MapCalls(@, "connect")]

\* an onDisconnect listener that only records the loss
onDisconnectNoRecovery(s) ==
  stopConnectionMonitoring([s EXCEPT !.isConnected = FALSE, !.peripheral = Null])

\* an onDisconnect listener that leaves the health monitor running
onDisconnectKeepsMonitor(s) ==
  LET t == [s EXCEPT !.isConnected = FALSE, !.peripheral = Null]
  IN IF t.autoReconnectEnabled /\ ~t.isReconnecting
     THEN attemptReconnection(t, FALSE)
     ELSE t

\* one onDisconnect listener (lines 667-681)
onDisconnect(s) ==
  LET t == stopConnectionMonitoring(
             [s EXCEPT !.isConnected = FALSE, !.peripheral = Null])
  IN IF t.autoReconnectEnabled /\ ~t.isReconnecting
     THEN attemptReconnection(t, FALSE)
     ELSE t

RECURSIVE Repeat(_, _)
Repeat(s, n) == IF n = 0 THEN s ELSE Repeat(onDisconnect(s), n - 1)

\* the handler disconnect() registered with once('disconnect') (lines 814-822)
disconnectHandler(s) ==
  IF s.disconnectWaiters = 0 THEN [s EXCEPT !.discStreak = 0]
  ELSE [s EXCEPT !.isConnected = FALSE,
                 !.peripheral = Null,
                 !.targetPeripheral = Null,
                 !.selectedCharacteristic = Null,
                 !.characteristics = {},
                 !.disconnectWaiters = 0,
                 !.discStreak = 1]

\* the 'disconnect' event: the onDisconnect listeners, then the handlers of
\* waiting disconnect() calls
disconnectEvent(s) ==
  LET n == Count(s.calls, {r \in DOMAIN s.calls : HasDiscListener(r)})
      t == Repeat([s EXCEPT !.linkState = "disconnected",
                            !.calls = MapCalls(@, "disconnect")], n)
  IN disconnectHandler(t)

\* discovery of one connect() is complete: the rest of onConnect
\* (lines 653-656)
finishConnect(s, r) ==
  LET t == startConnectionMonitoring(
             [s EXCEPT !.calls = AddCall(DelCall(@, r),
                          [r EXCEPT !.disc = "none", !.pend = {},
                                    !.owner = "none"])])
  IN resolved(t, r.owner)

\* a forEach that selects every characteristic it stores
storeCharacteristicAny(s, ch) ==
  [s EXCEPT !.characteristics = {c \in @ : Key(c) # Key(ch)} \cup {ch},
            !.selectedCharacteristic = ch]

\* one characteristic of the forEach: stored under its key and selected
\* if it carries the control UUID (lines 755-776)
storeCharacteristic(s, ch) ==
  [s EXCEPT !.characteristics = {c \in @ : Key(c) # Key(ch)} \cup {ch},
            !.selectedCharacteristic = IF IsControlUuid(ch) THEN ch ELSE @]

RECURSIVE forEachCharacteristic(_, _)
forEachCharacteristic(s, chs) ==
  IF chs = <<>> THEN s
  ELSE forEachCharacteristic(storeCharacteristic(s, Head(chs)), Tail(chs))

\* the characteristics.forEach of one service (lines 747-777)
storeCharacteristics(s, svc) ==
  forEachCharacteristic(s, CharsOf(s.budget.twin, svc))

\* disconnect() that asks the peripheral to disconnect whatever the state
disconnectUnguarded(s) ==
  LET t == stopConnectionMonitoring(
             [s EXCEPT !.autoReconnectEnabled = FALSE, !.manualDisc = TRUE])
  IN [t EXCEPT !.disconnectWaiters = @ + 1, !.discStreak = 0]

\* disconnect() up to its return or its wait for the event (lines 807-827)
disconnect(s) ==
  LET t == stopConnectionMonitoring(
             [s EXCEPT !.autoReconnectEnabled = FALSE, !.manualDisc = TRUE])
  IN IF t.peripheral # Null /\ t.isConnected
     THEN [t EXCEPT !.disconnectWaiters = @ + 1, !.discStreak = 0]
     ELSE [t EXCEPT !.discStreak = Min(s.discStreak + 1, 2)]

\* checkConnectionHealth() that leaves the flag as it is on a mismatch
checkConnectionHealthKeepsFlag(s) ==
  IF ~s.isConnected \/ s.peripheral = Null
  THEN IF s.autoReconnectEnabled /\ ~s.isReconnecting
       THEN attemptReconnection(s, FALSE)
       ELSE s
  ELSE IF s.linkState # "connected"
       THEN IF s.autoReconnectEnabled /\ ~s.isReconnecting
            THEN attemptReconnection(s, FALSE)
            ELSE s
       ELSE s

\* checkConnectionHealth() (lines 856-877)
checkConnectionHealth(s) ==
  IF ~s.isConnected \/ s.peripheral = Null
  THEN IF s.autoReconnectEnabled /\ ~s.isReconnecting
       THEN attemptReconnection(s, FALSE)
       ELSE s
  ELSE IF s.linkState # "connected"
       THEN LET t == [s EXCEPT !.isConnected = FALSE]
            IN IF t.autoReconnectEnabled /\ ~t.isReconnecting
               THEN attemptReconnection(t, FALSE)
               ELSE t
       ELSE s

(* --------------------------- command facade ---------------------------- *)
\* the call returns: its arguments are gone, its result stays
finishCmd(s, ok) ==
  [s EXCEPT !.cmd.pc = "done", !.cmd.op = "none", !.cmd.data = <<>>,
            !.cmd.retry = 0, !.cmd.sent = NoWrite,
            !.cmd.result = IF ok THEN "true" ELSE "false"]

\* writeToSelectedCharacteristic whose not-connected branch does not look
\* at autoReconnectEnabled
writeToSelectedCharacteristicNoSwitch(s) ==
  IF ~s.isConnected \/ s.peripheral = Null
  THEN IF s.targetPeripheral # Null /\ s.cmd.retry < maxRetries
       THEN attemptReconnection(s, TRUE)
       ELSE finishCmd(s, FALSE)
  ELSE IF s.selectedCharacteristic = Null
       THEN finishCmd(s, FALSE)
       ELSE IF ~HasWrite(s.selectedCharacteristic)
            THEN finishCmd(s, FALSE)
            ELSE [s EXCEPT !.cmd.pc = "write",
                           !.cmd.sent = [data |-> s.cmd.data,
                                         char |-> s.selectedCharacteristic],
                           !.cmd.writes = Min(@ + 1, WriteCap)]

\* writeToSelectedCharacteristic(data, operation, retryCount) up to its
\* first await (lines 979-1029); retryCount is cmd.retry
writeToSelectedCharacteristic(s) ==
  IF ~s.isConnected \/ s.peripheral = Null
  THEN IF s.autoReconnectEnabled /\ s.targetPeripheral # Null
          /\ s.cmd.retry < maxRetries
       THEN attemptReconnection(s, TRUE)
       ELSE finishCmd(s, FALSE)
  ELSE IF s.selectedCharacteristic = Null
       THEN finishCmd(s, FALSE)
       ELSE IF ~HasWrite(s.selectedCharacteristic)
            THEN finishCmd(s, FALSE)
            ELSE [s EXCEPT !.cmd.pc = "write",
                           !.cmd.sent = [data |-> s.cmd.data,
                                         char |-> s.selectedCharacteristic],
                           !.cmd.writes = Min(@ + 1, WriteCap)]

\* the write callback retrying while retryCount <= maxRetries
writeCallbackOneMore(s, error) ==
  IF error
  THEN LET f == [s EXCEPT !.cmd.failed = Min(@ + 1, WriteCap),
                          !.cmd.sent = NoWrite]
       IN IF f.cmd.retry <= maxRetries /\ f.autoReconnectEnabled
             /\ f.targetPeripheral # Null
          THEN attemptReconnection([f EXCEPT !.isConnected = FALSE], TRUE)
          ELSE finishCmd(f, FALSE)
  ELSE finishCmd([s EXCEPT !.cmd.wroteOk = TRUE], TRUE)

\* the write callback (lines 1029-1061)
writeCallback(s, error) ==
  IF error
  THEN LET f == [s EXCEPT !.cmd.failed = Min(@ + 1, WriteCap),
                          !.cmd.sent = NoWrite]
       IN IF f.cmd.retry < maxRetries /\ f.autoReconnectEnabled
             /\ f.targetPeripheral # Null
          THEN attemptReconnection([f EXCEPT !.isConnected = FALSE], TRUE)
          ELSE finishCmd(f, FALSE)
  ELSE finishCmd([s EXCEPT !.cmd.wroteOk = TRUE], TRUE)

\* turnLampOn / turnLampOff without their catch: the rejection reaches the host
catchErrorMissing(s) ==
  [finishCmd(s, FALSE) EXCEPT !.cmd.result = "raised"]

\* the catch of turnLampOn / turnLampOff (lines 1076-1083, 1097-1104): a
\* rejected writeToSelectedCharacteristic becomes false
catchError(s) == finishCmd(s, FALSE)

(* ------------------------------ lamp state ----------------------------- *)
returnsNull(s, why) ==
  [s EXCEPT !.read.pc = "done", !.read.result = "unknown",
            !.read.failure = why]

\* readLampState() up to its return or its wait for the read callback
\* (lines 1158-1181); thrown: char.read throws, the exception leaves the
\* promise executor and rejects the promise the call returned
readLampState(s, thrown) ==
  LET r == [s EXCEPT !.read = IdleRead, !.budget.reads = @ - 1]
  IN  IF ~r.isConnected \/ r.peripheral = Null
      THEN returnsNull(r, "NotConnected")
      ELSE IF r.selectedCharacteristic = Null
      THEN returnsNull(r, "NoCharacteristic")
      ELSE IF ~HasRead(r.selectedCharacteristic)
      THEN returnsNull(r, "NoReadMethod")
      ELSE IF thrown
      THEN [r EXCEPT !.read.pc = "raised", !.read.reads = 1]
      ELSE [r EXCEPT !.read.pc = "reading", !.read.reads = 1]

\* the callback passed to char.read (lines 1182-1198)
readCallback(s, error, data) ==
  LET r == [s EXCEPT !.read.answered = TRUE, !.read.error = error,
                     !.read.data = data]
  IN  IF error
      THEN returnsNull(r, "ReadError")
      ELSE IF Len(data) > 0
      THEN [r EXCEPT !.read.pc = "done",
                     !.read.result = IF data[1] = 1 THEN "on" ELSE "off"]
      ELSE returnsNull(r, "EmptyData")

(* ------------------------------ host calls ----------------------------- *)
\* the host calls readLampState()
ReadLampState ==
  /\ budget.reads > 0
  /\ read.pc \in {"idle", "done"}
  /\ \E thrown \in BOOLEAN : Commit(readLampState(State, thrown))

\* the host calls connect(peripheral)
HostConnect ==
  /\ budget.connects > 0
  /\ Commit(connect(Spend([State EXCEPT !.manualDisc = FALSE,
                                        !.consecFails = 0,
                                        !.lastFailDelay = 0], "connects"),
                    Lamp, "host", 0))

\* the host calls disconnect()
HostDisconnect ==
  /\ budget.disconnects > 0
  /\ CommitDisc(disconnect(Spend(State, "disconnects")))

\* Buffer.from([0x01]) (line 1073) and Buffer.from([0x00]) (line 1094)
OnPayload == <<1>>

OffPayloadOn == <<1>>

OffPayload == <<0>>

StartCmd(s, op, data) ==
  [s EXCEPT !.budget.cmds = @ - 1,
            !.cmd = [IdleCmd EXCEPT !.op = op, !.data = data,
                       !.switchedOff = /\ ~s.isConnected
                                       /\ s.targetPeripheral # Null
                                       /\ ~s.autoReconnectEnabled,
                       !.clean = op = "on" /\ ~s.isConnected
                                 /\ s.targetPeripheral # Null
                                 /\ s.autoReconnectEnabled]]

\* the host calls turnLampOn() (lines 1069-1084)
turnLampOn ==
  /\ budget.cmds > 0
  /\ cmd.pc \in {"idle", "done"}
  /\ Commit(writeToSelectedCharacteristic(StartCmd(State, "on", OnPayload)))

\* the host calls turnLampOff() (lines 1090-1105)
turnLampOff ==
  /\ budget.cmds > 0
  /\ cmd.pc \in {"idle", "done"}
  /\ Commit(writeToSelectedCharacteristic(StartCmd(State, "off", OffPayload)))

setAutoReconnect ==
  /\ budget.setters > 0
  /\ \E enabled \in BOOLEAN :
       Commit([Spend(State, "setters") EXCEPT !.autoReconnectEnabled = enabled])

setMaxReconnectionAttempts ==
  /\ budget.setters > 0
  /\ \E attempts \in MaxAttemptsArgs :
       Commit([Spend(State, "setters") EXCEPT
                 !.maxReconnectionAttempts = Max(1, attempts)])

\* the interval taken as it is given
monitorIntervalMsNoFloor(intervalSeconds) == intervalSeconds * 1000

monitorIntervalMs(intervalSeconds) ==
  Max(MinMonitorIntervalSeconds, intervalSeconds) * 1000

setConnectionMonitorInterval ==
  /\ budget.setters > 0
  /\ \E intervalSeconds \in MonitorIntervalArgs :
       LET s == [Spend(State, "setters") EXCEPT !.connectionMonitorIntervalMs =
                                         monitorIntervalMs(intervalSeconds)]
       IN Commit(IF s.connectionMonitorInterval
                 THEN startConnectionMonitoring(stopConnectionMonitoring(s))
                 ELSE s)

\* a lookup that drops the selection when the UUID is not found
selectByUuidClears(s, uuid) ==
  LET stored == {ch \in s.characteristics : Uuid(ch) = uuid}
  IN IF stored # {}
     THEN [s EXCEPT !.selectedCharacteristic = CHOOSE ch \in stored : TRUE,
                    !.select = [uuid |-> uuid, returned |-> "true"]]
     ELSE [s EXCEPT !.selectedCharacteristic = Null,
                    !.select = [uuid |-> uuid, returned |-> "false"]]

\* the loop over this.characteristics: the stored characteristic with the
\* UUID is selected and true returned, else false (lines 1113-1121); the
\* map holds at most one characteristic per UUID
selectByUuid(s, uuid) ==
  LET stored == {ch \in s.characteristics : Uuid(ch) = uuid}
  IN IF stored # {}
     THEN [s EXCEPT !.selectedCharacteristic = CHOOSE ch \in stored : TRUE,
                    !.select = [uuid |-> uuid, returned |-> "true"]]
     ELSE [s EXCEPT !.select = [uuid |-> uuid, returned |-> "false"]]

\* the host calls setLampControlCharacteristic(uuid) (lines 1112-1122)
setLampControlCharacteristic ==
  /\ budget.setters > 0
  /\ \E uuid \in Uuids : Commit(selectByUuid(Spend(State, "setters"), uuid))

initialReconnectionDelay(delayMs) == Max(MinReconnectionDelay, delayMs)

setInitialReconnectionDelay ==
  /\ budget.setters > 0
  /\ \E delayMs \in InitialDelayArgs :
       Commit([Spend(State, "setters") EXCEPT
                 !.reconnectionDelay = initialReconnectionDelay(delayMs),
                 !.initialDelay = initialReconnectionDelay(delayMs),
                 !.lastFailDelay = 0])

(* ---------------------------- adapter events --------------------------- *)
Answered(s, r, q) == [s EXCEPT !.calls = AddCall(DelCall(@, r), q)]

\* the adapter establishes the link and emits 'connect'
AdapterConnectOk ==
  \E r \in DOMAIN calls :
    /\ r.req
    /\ ~budget.outage
    /\ Commit(onConnect([Answered(State, r, [r EXCEPT !.req = FALSE])
                           EXCEPT !.linkState = "connected"]))

\* the adapter answers peripheral.connect with an error (lines 686-691)
AdapterConnectFail ==
  \E r \in DOMAIN calls, jitter \in Jitters :
    /\ r.req
    /\ budget.faults > 0 \/ budget.outage
    /\ LET s == Answered(State, r, [r EXCEPT !.req = FALSE, !.owner = "none"])
       IN Commit(rejected(IF budget.outage THEN Dirty(s) ELSE Spend(s, "faults"),
                          r.owner, jitter))

\* discoverServices answers with the services it found (lines 707-733)
ServicesDiscovered ==
  \E r \in DOMAIN calls, found \in SUBSET Services :
    /\ r.disc = "svc"
    /\ LET s == [State EXCEPT !.characteristics = {},
                              !.cmd.clean = @ /\ 1 \in found]
       IN Commit(IF found = {}
                 THEN finishConnect(s, r)
                 ELSE Answered(s, r, [r EXCEPT !.disc = "chr",
                                               !.pend = found]))

\* discoverServices answers with an error (lines 708-712, 657-664)
ServicesFailed ==
  \E r \in DOMAIN calls, jitter \in Jitters :
    /\ r.disc = "svc"
    /\ budget.faults > 0
    /\ Commit(rejected(Spend(Answered(State, r,
                               [r EXCEPT !.disc = "none", !.owner = "none"]),
                             "faults"),
                       r.owner, jitter))

\* a join that resolves on the first characteristic callback
CharacteristicsAnsweredFirst(s, r, svc) == finishConnect(s, r)

\* pendingDiscoveries-- and the resolve of the last callback (lines 780-795)
CharacteristicsAnswered(s, r, svc) ==
  IF r.pend = {svc}
  THEN finishConnect(s, r)
  ELSE Answered(s, r, [r EXCEPT !.pend = @ \ {svc}])

\* discoverCharacteristics of one service answers (lines 738-796)
CharacteristicsDiscovered ==
  \E r \in DOMAIN calls, svc \in Services :
    /\ r.disc = "chr"
    /\ svc \in r.pend
    /\ Commit(CharacteristicsAnswered(storeCharacteristics(State, svc), r, svc))

\* an error callback of discoverCharacteristics that rejects the connect
CharacteristicsFailedRejects ==
  \E r \in DOMAIN calls, svc \in Services, jitter \in Jitters :
    /\ r.disc = "chr"
    /\ svc \in r.pend
    /\ budget.faults > 0
    /\ Commit(rejected(Spend(Answered(State, r,
                               [r EXCEPT !.disc = "none", !.pend = {},
                                         !.owner = "none"]),
                             "faults"),
                       r.owner, jitter))

\* discoverCharacteristics of one service answers with an error
CharacteristicsFailed ==
  \E r \in DOMAIN calls, svc \in Services :
    /\ r.disc = "chr"
    /\ svc \in r.pend
    /\ budget.faults > 0
    /\ Commit(CharacteristicsAnswered(Spend(State, "faults"), r, svc))

\* the link is lost: the adapter emits 'disconnect' unasked
LinkLoss ==
  /\ linkState = "connected"
  /\ budget.losses > 0
  /\ CommitDisc(disconnectEvent(Spend(State, "losses")))

\* the transport stops reporting the link as connected and no 'disconnect'
\* event reaches the controller: peripheral.state is all that changes
SilentLoss ==
  /\ linkState = "connected"
  /\ budget.losses > 0
  /\ Commit([Spend(State, "losses") EXCEPT !.linkState = "disconnected"])

\* the adapter answers peripheral.disconnect() with the 'disconnect' event
DisconnectDone ==
  /\ disconnectWaiters > 0
  /\ CommitDisc(disconnectEvent(State))

\* the read callback fires
ReadAnswered ==
  /\ read.pc = "reading"
  /\ \E error \in BOOLEAN, data \in ReadData :
       Commit(readCallback(State, error, IF error THEN <<>> ELSE data))

\* the write callback fires without error
WriteOk ==
  /\ cmd.pc = "write"
  /\ Commit(writeCallback(State, FALSE))

\* the write callback fires with an error
WriteFail ==
  /\ cmd.pc = "write"
  /\ Commit(writeCallback(Dirty(State), TRUE))

\* char.write throws: the executor's exception rejects the promise of
\* writeToSelectedCharacteristic (line 1013)
WriteThrows ==
  /\ cmd.pc = "write"
  /\ budget.faults > 0
  /\ Commit(catchError(Spend(State, "faults")))

(* -------------------------------- timers ------------------------------- *)
\* the backoff wait of a background attemptReconnection ends (lines 899-903)
BackoffTimerFires ==
  /\ backoffTimers > 0
  /\ \E jitter \in Jitters :
       Commit(connect([State EXCEPT !.backoffTimers = @ - 1],
                      targetPeripheral, "sup", jitter))

\* the backoff wait of the attemptReconnection the command awaits ends
CmdBackoffTimerFires ==
  /\ cmd.pc = "backoff"
  /\ \E jitter \in Jitters :
       Commit(connect([State EXCEPT !.cmd.pc = "connecting"],
                      targetPeripheral, "cmd", jitter))

\* the timer armed after a failed attempt fires (lines 917-921)
RescheduleTimerFires ==
  /\ rescheduleTimers > 0
  /\ LET s == [State EXCEPT !.rescheduleTimers = @ - 1]
     IN Commit(IF s.autoReconnectEnabled /\ ~s.isConnected
               THEN attemptReconnection(s, FALSE)
               ELSE s)

\* a tick of the health monitor (lines 835-837)
MonitorTick ==
  /\ monitorTimers > 0
  /\ Commit(checkConnectionHealth(State))

\* the retry made with retryCount instead of retryCount + 1
StabilizeTimerSameCount ==
  /\ cmd.pc = "stabilize"
  /\ Commit(writeToSelectedCharacteristic(State))

\* the 1000 ms stabilisation wait of the command ends: the retry
\* (lines 994-997, 1045-1049)
StabilizeTimerFires ==
  /\ cmd.pc = "stabilize"
  /\ Commit(writeToSelectedCharacteristic([State EXCEPT !.cmd.retry = @ + 1]))

(* ------------------------------ radio gate ----------------------------- *)
\* onStateChange that keeps waiting until the adapter is powered on
onStateChangeWaiting(s, state) ==
  LET seen == [s EXCEPT !.gate.first = IF @ = "none" THEN state ELSE @]
  IN  IF state = "poweredOn"
      THEN [seen EXCEPT !.gate.listener = FALSE,
                        !.gate.settles = @ + 1,
                        !.gate.pc = IF @ = "waiting" THEN "resolved" ELSE @]
      ELSE seen

\* onStateChange (lines 447-459)
onStateChange(s, state) ==
  LET seen == [s EXCEPT !.gate.first = IF @ = "none" THEN state ELSE @]
  IN  IF state = "poweredOn"
      THEN [seen EXCEPT !.gate.listener = FALSE,
                        !.gate.settles = @ + 1,
                        !.gate.pc = IF @ = "waiting" THEN "resolved" ELSE @]
      ELSE [seen EXCEPT !.gate.listener = FALSE,
                        !.gate.settles = @ + 1,
                        !.gate.pc = IF @ = "waiting" THEN "rejected" ELSE @]

\* the host calls init() (lines 431-487): the listener is attached, and
\* detached again at once if the adapter is already powered on
init ==
  /\ gate.pc = "idle"
  /\ Commit([State EXCEPT
               !.gate = IF noble.state = "poweredOn"
                        THEN [IdleGate EXCEPT !.pc = "resolved",
                                              !.settles = 1,
                                              !.at = noble.state]
                        ELSE [IdleGate EXCEPT !.pc = "waiting",
                                              !.listener = TRUE,
                                              !.at = noble.state]])

\* the adapter changes its power state and emits 'stateChange'
StateChange ==
  /\ budget.power > 0
  /\ \E state \in PowerStates \ {noble.state} :
       LET s == [State EXCEPT !.noble.state = state, !.budget.power = @ - 1]
       IN  Commit(IF gate.listener THEN onStateChange(s, state) ELSE s)

(* ------------------------------- scanner ------------------------------- *)
ScanEvents == {"discover", "scanStart", "scanStop"}

\* cleanup (lines 527-539): clearTimeout reaches only the timer whose handle
\* scanTimeout holds, the one armed last; stopScanning is requested only
\* if the adapter reports that it is scanning
cleanup(s) ==
  [s EXCEPT !.scan.scanTimeout = FALSE,
            !.scan.listeners = {},
            !.noble.scanning = FALSE]

\* resolveOnce without the isResolved test
resolveOnceUnguarded(s, by) ==
  LET c == cleanup([s EXCEPT !.scan.isResolved = TRUE])
  IN  [c EXCEPT !.scan.resolves = @ + 1,
                !.scan.by = IF @ = "none" THEN by ELSE @,
                !.scan.pc = IF @ = "scanning" THEN "resolved" ELSE @,
                !.scan.result = IF s.scan.pc = "scanning"
                                THEN s.scan.devices ELSE @]

\* resolveOnce (lines 541-547); `by` records who called it first
resolveOnce(s, by) ==
  IF ~s.scan.isResolved
  THEN LET c == cleanup([s EXCEPT !.scan.isResolved = TRUE])
       IN  [c EXCEPT !.scan.resolves = @ + 1,
                     !.scan.by = IF @ = "none" THEN by ELSE @,
                     !.scan.pc = IF @ = "scanning" THEN "resolved" ELSE @,
                     !.scan.result = IF s.scan.pc = "scanning"
                                     THEN s.scan.devices ELSE @]
  ELSE s

\* lines 572-576: a peripheral without address gets its id as address
Normalized(p) ==
  [p EXCEPT !.address = IF @ = "" /\ p.id # "" THEN p.id ELSE @]

\* onDiscover comparing the name and the filter as they are written
onDiscoverCaseSensitive(s, p) ==
  LET pushed == [s EXCEPT !.scan.devices = Append(@, Normalized(p))]
      name   == p.localName
  IN  IF /\ Truthy(s.scan.deviceFilter) /\ Truthy(name)
         /\ includes(name.text, s.scan.deviceFilter.text)
      THEN resolveOnce(pushed, "match")
      ELSE pushed

\* onDiscover (lines 549-588)
onDiscover(s, p) ==
  LET pushed == [s EXCEPT !.scan.devices = Append(@, Normalized(p))]
      name   == p.localName
  IN  IF /\ Truthy(s.scan.deviceFilter) /\ Truthy(name)
         /\ includes(toLowerCase(name.text),
                     toLowerCase(s.scan.deviceFilter.text))
      THEN resolveOnce(pushed, "match")
      ELSE pushed

\* the host calls scanDevices(duration, deviceFilter) (lines 495-621): both
\* timers are armed and the listeners attached before startScanning is
\* requested; if the adapter refuses the request, the exception is caught
\* and the promise rejected with the timers and listeners left in place
scanDevices ==
  /\ scan.pc = "idle"
  /\ \E deviceFilter \in DeviceFilterArgs, refused \in BOOLEAN :
       Commit([State EXCEPT
                 !.scan = [IdleScan EXCEPT
                             !.pc = IF refused THEN "rejected" ELSE "scanning",
                             !.deviceFilter = deviceFilter,
                             !.listeners = ScanEvents,
                             !.firstTimer = TRUE,
                             !.scanTimeout = TRUE],
                 !.noble.startPending = ~refused])

\* the adapter's scan start takes effect; onScanStart only logs (line 522)
ScanStarted ==
  /\ noble.startPending
  /\ Commit([State EXCEPT !.noble.startPending = FALSE,
                          !.noble.scanning = TRUE])

\* the adapter delivers a 'discover' event to the attached listener
Discover ==
  /\ noble.scanning
  /\ "discover" \in scan.listeners
  /\ Len(scan.devices) < MaxDevices
  /\ \E p \in Peripherals : Commit(onDiscover(State, p))

\* one of the two duration timers fires (lines 591-594 and 602-605)
ScanTimerFires ==
  /\ \/ /\ scan.firstTimer
        /\ Commit(resolveOnce([State EXCEPT !.scan.firstTimer = FALSE,
                                            !.scan.fired = TRUE], "timer"))
     \/ /\ scan.scanTimeout
        /\ Commit(resolveOnce([State EXCEPT !.scan.scanTimeout = FALSE,
                                            !.scan.fired = TRUE], "timer"))

(* ---------------------------- specifications -------------------------- *)
\* the adapter's answers and the timers
Machine ==
  \/ AdapterConnectOk
  \/ ServicesDiscovered
  \/ CharacteristicsDiscovered
  \/ BackoffTimerFires
  \/ MonitorTick

\* the session and the reconnection supervisor under explicit connects,
\* disconnects and link losses
Init ==
  InitWith([NoBudget EXCEPT !.connects = SupConnects,
                            !.disconnects = SupDisconnects,
                            !.losses = SupLosses])

Next ==
  \/ Machine
  \/ HostConnect
  \/ HostDisconnect
  \/ DisconnectDone
  \/ LinkLoss

Spec == Init /\ [][Next]_vars

TypeOK ==
  /\ isConnected \in BOOLEAN
  /\ peripheral \in {Null, Lamp}
  /\ targetPeripheral \in {Null, Lamp}
  /\ characteristics \subseteq Chars
  /\ selectedCharacteristic \in Chars \cup {Null}
  /\ reconnectionAttempts \in Nat
  /\ reconnectionDelay \in Nat
  /\ monitorTimers \in Nat
  /\ backoffTimers \in Nat
  /\ rescheduleTimers \in Nat
  /\ cmd.pc \in {"idle", "backoff", "connecting", "stabilize", "write", "done"}
  /\ cmd.retry \in 0..maxRetries

\* the supervisor's attempt counter and backoff delay under failing connects
\* and host configuration
InitBackoff ==
  InitWith([NoBudget EXCEPT !.setters = BackoffSetters,
                            !.connects = BackoffConnects,
                            !.losses = BackoffLosses,
                            !.faults = BackoffFaults])

NextBackoff ==
  \/ Machine
  \/ RescheduleTimerFires
  \/ HostConnect
  \/ LinkLoss
  \/ AdapterConnectFail
  \/ ServicesFailed
  \/ CharacteristicsFailed
  \/ setMaxReconnectionAttempts
  \/ setInitialReconnectionDelay

SpecBackoff == InitBackoff /\ [][NextBackoff]_vars

CommandSteps ==
  \/ turnLampOn
  \/ turnLampOff
  \/ WriteOk
  \/ WriteFail
  \/ CmdBackoffTimerFires
  \/ StabilizeTimerFires

Faults ==
  \/ AdapterConnectFail
  \/ ServicesFailed
  \/ CharacteristicsFailed
  \/ WriteThrows

\* the command facade over a connected or disconnected session; in each
\* behaviour the environment disturbs it in one way: a host call, a failure
\* answer of the adapter, a disconnect() or a link loss
CmdBase == [NoBudget EXCEPT !.connects = CmdConnects, !.cmds = CmdCommands]

CmdScenarios ==
  {[CmdBase EXCEPT !.setters = CmdSetters],
   [CmdBase EXCEPT !.faults = CmdFaults],
   [CmdBase EXCEPT !.disconnects = CmdDisconnects],
   [CmdBase EXCEPT !.losses = CmdLosses]}

InitCmd == \E b \in CmdScenarios : InitWith(b)

NextCmd ==
  \/ Machine
  \/ RescheduleTimerFires
  \/ CommandSteps
  \/ Faults
  \/ HostConnect
  \/ HostDisconnect
  \/ DisconnectDone
  \/ LinkLoss
  \/ setLampControlCharacteristic

SpecCmd == InitCmd /\ [][NextCmd]_vars

\* a command over a session that lost its link, all adapter answers good
InitRecover ==
  InitWith([NoBudget EXCEPT !.connects = RecConnects,
                            !.cmds = RecCommands,
                            !.losses = RecLosses])

NextRecover ==
  \/ Machine
  \/ CommandSteps
  \/ HostConnect
  \/ LinkLoss

SpecRecover == InitRecover /\ [][NextRecover]_vars

\* termination of a command: timers fire and the adapter answers every
\* request, with success, or with failure while the lamp is out of reach
LiveBase == [NoBudget EXCEPT !.connects = LiveConnects, !.cmds = LiveCommands]

InitCmdFair == \E out \in BOOLEAN : InitWith([LiveBase EXCEPT !.outage = out])

NextCmdFair ==
  \/ Machine
  \/ RescheduleTimerFires
  \/ CommandSteps
  \/ HostConnect
  \/ AdapterConnectFail

Fairness ==
  /\ WF_vars(AdapterConnectOk \/ AdapterConnectFail)
  /\ WF_vars(ServicesDiscovered)
  /\ WF_vars(CharacteristicsDiscovered)
  /\ WF_vars(WriteOk \/ WriteFail)
  /\ WF_vars(CmdBackoffTimerFires \/ StabilizeTimerFires)

SpecCmdFair == InitCmdFair /\ [][NextCmdFair]_vars /\ Fairness

\* a command over an adapter that may leave a write unanswered: timers fire
\* and connects and discoveries are answered, but the completion callback of
\* char.write is not obliged to fire
SilentFairness ==
  /\ WF_vars(AdapterConnectOk \/ AdapterConnectFail)
  /\ WF_vars(ServicesDiscovered)
  /\ WF_vars(CharacteristicsDiscovered)
  /\ WF_vars(CmdBackoffTimerFires \/ StabilizeTimerFires)
  /\ WF_vars(BackoffTimerFires)
  /\ WF_vars(RescheduleTimerFires)

SpecSilent == InitCmdFair /\ [][NextCmdFair]_vars /\ SilentFairness

\* recovery after link losses: timers fire, the adapter answers every
\* request, and its failure answers are finitely many
InitHealFair ==
  InitWith([NoBudget EXCEPT !.connects = HealConnects,
                            !.losses = HealLosses,
                            !.faults = HealFaults])

NextHealFair ==
  \/ Machine
  \/ RescheduleTimerFires
  \/ HostConnect
  \/ LinkLoss
  \/ AdapterConnectFail
  \/ ServicesFailed
  \/ CharacteristicsFailed

HealFairness ==
  /\ WF_vars(AdapterConnectOk \/ AdapterConnectFail)
  /\ WF_vars(BackoffTimerFires)
  /\ WF_vars(RescheduleTimerFires)

SpecHealFair == InitHealFair /\ [][NextHealFair]_vars /\ HealFairness

\* the auto-reconnect switch: commands, link losses and monitor ticks on a
\* session whose host turns automatic reconnection off and on
InitSwitch ==
  InitWith([NoBudget EXCEPT !.connects = SwitchConnects,
                            !.cmds = SwitchCommands,
                            !.losses = SwitchLosses,
                            !.setters = SwitchSetters])

NextSwitch ==
  \/ Machine
  \/ CommandSteps
  \/ HostConnect
  \/ LinkLoss
  \/ setAutoReconnect

SpecSwitch == InitSwitch /\ [][NextSwitch]_vars

\* the ticks of the health monitor on a session whose link is lost with or
\* without a 'disconnect' event and whose reconnection attempts may fail
InitHealth ==
  InitWith([NoBudget EXCEPT !.connects = HealthConnects,
                            !.losses = HealthLosses,
                            !.faults = HealthFaults,
                            !.setters = HealthSetters])

NextHealth ==
  \/ Machine
  \/ RescheduleTimerFires
  \/ HostConnect
  \/ LinkLoss
  \/ SilentLoss
  \/ AdapterConnectFail
  \/ setAutoReconnect

SpecHealth == InitHealth /\ [][NextHealth]_vars

\* discovery on a lamp that exposes the control UUID once or twice: the
\* adapter reports any subset of the services, their characteristic
\* callbacks arrive in any order, one of them may carry an error, and the
\* session may lose its link and be rediscovered by a reconnection
InitDiscover ==
  \E twin \in BOOLEAN :
    InitWith([NoBudget EXCEPT !.connects = DiscConnects,
                              !.losses = DiscLosses,
                              !.faults = DiscFaults,
                              !.twin = twin])

NextDiscover ==
  \/ Machine
  \/ HostConnect
  \/ LinkLoss
  \/ CharacteristicsFailed

SpecDiscover == InitDiscover /\ [][NextDiscover]_vars

\* the same sessions with a lamp command issued at any moment
InitSelect ==
  \E twin \in BOOLEAN :
    InitWith([NoBudget EXCEPT !.connects = SelConnects,
                              !.cmds = SelCommands,
                              !.losses = SelLosses,
                              !.faults = SelFaults,
                              !.twin = twin])

NextSelect ==
  \/ NextDiscover
  \/ CommandSteps

SpecSelect == InitSelect /\ [][NextSelect]_vars

\* the health monitor of a session that connects, loses its link, recovers
\* and is disconnected, with the host changing the interval
InitMonitor ==
  InitWith([NoBudget EXCEPT !.connects = MonConnects,
                            !.disconnects = MonDisconnects,
                            !.losses = MonLosses,
                            !.setters = MonSetters])

NextMonitor ==
  \/ Machine
  \/ HostConnect
  \/ HostDisconnect
  \/ DisconnectDone
  \/ LinkLoss
  \/ setConnectionMonitorInterval

SpecMonitor == InitMonitor /\ [][NextMonitor]_vars

\* readLampState calls on a session that connects, loses its link and
\* recovers, with the host selecting either characteristic
InitRead ==
  InitWith([NoBudget EXCEPT !.connects = ReadConnects,
                            !.losses = ReadLosses,
                            !.setters = ReadSetters,
                            !.reads = ReadCalls])

NextRead ==
  \/ Machine
  \/ HostConnect
  \/ LinkLoss
  \/ setLampControlCharacteristic
  \/ ReadLampState
  \/ ReadAnswered

SpecRead == InitRead /\ [][NextRead]_vars

\* one init() call, against an adapter in any power state
InitGate ==
  \E state \in PowerStates :
    InitAt([NoBudget EXCEPT !.power = MaxStateChanges], state)

NextGate ==
  \/ init
  \/ StateChange

SpecGate == InitGate /\ [][NextGate]_vars

\* one scan pass
InitScan == InitWith(NoBudget)

NextScan ==
  \/ scanDevices
  \/ ScanStarted
  \/ Discover
  \/ ScanTimerFires

\* a timer that is armed fires
SpecScan == InitScan /\ [][NextScan]_vars /\ WF_vars(ScanTimerFires)

(* ------------------------------- claims -------------------------------- *)
SequenceCalls(B) == {r \in DOMAIN B : r.owner \in {"sup", "cmd"}}

\* reconnection attempt sequences that are active: waiting their backoff
\* delay or awaiting the connect(target) they issued
ActiveSequences ==
  backoffTimers + (IF cmd.pc = "backoff" THEN 1 ELSE 0)
  + Count(calls, SequenceCalls(calls))

\* C1: at most one reconnection attempt sequence (backoff wait followed by
\* connect(target)) is active at any time.
C1_SingleFlight == ActiveSequences <= 1

\* an attemptReconnection() that ended its backoff wait calls connect(target)
SupervisorConnects ==
  /\ BackoffTimerFires \/ CmdBackoffTimerFires
  /\ targetPeripheral # Null

HostCallsInFlight(B) == {r \in DOMAIN B : r.owner = "host"}

\* C3: once disconnect() has been called and until the next explicit
\* connect(), no reconnection attempt invokes connect(target), and
\* connectionState does not become Connected (an explicit connect() still in
\* flight set aside).
C3_DisconnectAbortsReconnection ==
  [][manualDisc =>
       /\ ~SupervisorConnects
       /\ (manualDisc' /\ Count(calls, HostCallsInFlight(calls)) = 0 /\ ~isConnected
             => ~isConnected')]_vars

\* C9: after a disconnect() call has returned connectionState is
\* Disconnected, and a second disconnect() made right after the first has
\* returned issues no active disconnect and returns at once.
C9_DisconnectIdempotent ==
  [][/\ discStreak' >= 1 => ~isConnected'
     /\ (discStreak = 1 /\ HostDisconnect)
          => /\ disconnectWaiters' = disconnectWaiters
             /\ discStreak' = 2]_vars

\* two disconnect() calls have returned back to back, the first one after an
\* active disconnect of an established session
C9_Witness ==
  /\ discStreak = 2
  /\ targetPeripheral = Null
  /\ budget.connects < SupConnects
  /\ ~isConnected

\* C2: after maxAttempts consecutive failed reconnection attempts the
\* supervisor makes no further connect(target) call until the host issues a
\* new explicit connect().
C2_AttemptCeiling ==
  [][consecFails >= maxReconnectionAttempts => ~SupervisorConnects]_vars

\* a reconnection attempt fails: the catch branch arms the re-schedule timer
AttemptFails == rescheduleTimers' = rescheduleTimers + 1

\* C7: on every failed reconnection attempt the new currentDelay is at most
\* maxDelay and not below the previous currentDelay, neither the one stored
\* nor the one the previous failure of the run computed.
C7_BackoffMonotone ==
  [][AttemptFails =>
       /\ reconnectionDelay' <= maxReconnectionDelay
       /\ reconnectionDelay' >= reconnectionDelay
       /\ (lastFailDelay # 0 => reconnectionDelay' >= lastFailDelay)]_vars

AwaitedDiscoveries(B) == {r \in DOMAIN B : r.owner # "none" /\ r.disc # "none"}

\* the promise of a connect() call is fulfilled
ConnectResolves ==
  /\ ServicesDiscovered \/ CharacteristicsDiscovered \/ CharacteristicsFailed
  /\ Count(calls', AwaitedDiscoveries(calls')) < Count(calls, AwaitedDiscoveries(calls))

\* the 'connect' event reaches an onConnect listener
LinkEstablished ==
  AdapterConnectOk /\ Count(calls, {r \in DOMAIN calls : HasListener(r)}) > 0

\* C8: right after a successful connect currentDelay is the initial delay the
\* host configured (1000 ms by default) and the attempt counter is 0.
C8_BackoffReset ==
  [][LinkEstablished \/ ConnectResolves =>
       /\ reconnectionDelay' = initialDelay'
       /\ reconnectionAttempts' = 0]_vars

\* C4: a single turnOn() or turnOff() call issues at most 4 write attempts
\* (the first attempt plus maxRetries retries), and returns false after the
\* 4th failed attempt.
C4_BoundedRetry ==
  [][/\ cmd'.writes <= maxRetries + 1
     /\ (WriteFail /\ cmd.writes = maxRetries + 1)
          => cmd'.pc = "done" /\ cmd'.result = "false"]_vars

\* C4 as the specification words it: a single call issues at most 3 write
\* attempts and returns false after the 3rd failed attempt.
C4_ThreeAttempts ==
  [][/\ cmd'.writes <= maxRetries
     /\ (WriteFail /\ cmd.writes = maxRetries)
          => cmd'.pc = "done" /\ cmd'.result = "false"]_vars

\* a command returned false after its 4th write failed
C4_Witness ==
  /\ cmd.pc = "done"
  /\ cmd.writes = maxRetries + 1
  /\ cmd.failed = maxRetries + 1
  /\ cmd.result = "false"

\* C5: turnOn() / turnOff() settle with a boolean, never with a rejection,
\* and the result is true only if a write attempt completed without error.
C5_FacadeNeverRaises ==
  /\ cmd.result \in {"none", "true", "false"}
  /\ cmd.pc = "done" => cmd.result \in {"true", "false"}
  /\ cmd.result = "true" => cmd.wroteOk

\* a command returned false after a write error and a failed reconnection
C5_Witness ==
  /\ cmd.pc = "done"
  /\ cmd.result = "false"
  /\ cmd.failed >= 1
  /\ consecFails >= 1

CmdRunning == cmd.pc \notin {"idle", "done"}

\* C6: every turnOn() / turnOff() call eventually returns, when timers fire
\* and the adapter answers each request, even if every reconnection attempt
\* fails and the supervisor keeps rescheduling itself.
C6_CommandTerminates == CmdRunning ~> cmd.pc = "done"

\* a command returned while the lamp is out of reach, after three failed
\* reconnection attempts, with the supervisor still scheduled
C6_Witness ==
  /\ cmd.pc = "done"
  /\ budget.outage
  /\ consecFails >= maxRetries
  /\ backoffTimers + rescheduleTimers > 0

\* C10: a turnOn() called while Disconnected, with a target remembered and
\* auto-reconnect enabled, returns true when every answer of the adapter
\* during the call is a success finding the control characteristic (and no
\* timer of the supervisor is left waiting when the call returns).
C10_TurnOnRecovers ==
  (/\ cmd.pc = "done"
   /\ cmd.clean
   /\ backoffTimers = 0
   /\ rescheduleTimers = 0) => cmd.result = "true"


\* the link is down after an unsolicited loss, auto-reconnect is enabled and
\* a target is remembered
LinkLost ==
  /\ linkState = "disconnected"
  /\ budget.losses < HealLosses
  /\ autoReconnectEnabled
  /\ targetPeripheral # Null

Connected == isConnected /\ linkState = "connected"

\* C11: with auto-reconnect enabled and a remembered target, after any
\* unsolicited link loss the manager is eventually Connected again, when
\* timers fire and the adapter's connect and discovery requests eventually
\* succeed.
C11_AutomaticRecovery == LinkLost ~> Connected

\* Connected again after two link losses and a failure answer of the adapter
C11_Witness ==
  /\ Connected
  /\ budget.losses = 0
  /\ budget.faults = 0
  /\ budget.connects = 0
  /\ reconnectionDelay = DefaultReconnectionDelay


SupervisorDiscoveries(B) == {r \in DOMAIN B : r.owner = "sup" /\ r.disc # "none"}

\* the connect(target) of a reconnection attempt resolves
ReconnectionSucceeds ==
  /\ ServicesDiscovered \/ CharacteristicsDiscovered
  /\ Count(calls', SupervisorDiscoveries(calls'))
       < Count(calls, SupervisorDiscoveries(calls))

\* the session has lost its link exactly once
OneLinkLoss == SupLosses - budget.losses = 1

\* C12: when the link loss of a connected session is followed by a
\* reconnection that succeeds at its first attempt, with the link still up,
\* the supervisor is idle with attempt 0 and inProgress false, and exactly
\* one Health Monitor is running.
C12_ReconnectedPostState ==
  [][(/\ OneLinkLoss /\ consecFails = 0
      /\ ReconnectionSucceeds /\ linkState = "connected") =>
       /\ reconnectionAttempts' = 0
       /\ ~isReconnecting'
       /\ backoffTimers' = 0
       /\ connectionMonitorInterval'
       /\ monitorTimers' = 1]_vars


\* the session is Connected again after a link loss, the reconnection
\* attempt's connect(target) resolved, the monitor restarted
C12_Witness ==
  /\ budget.losses = SupLosses - 1
  /\ ~manualDisc
  /\ Connected
  /\ Count(calls, AwaitedDiscoveries(calls)) = 0
  /\ reconnectionAttempts = 0
  /\ monitorTimers = 1


\* the display name of p contains the filter f, letter case ignored
MatchesFilter(p, f) ==
  /\ Truthy(f) /\ Truthy(p.localName)
  /\ \E off \in 0..(Len(p.localName.text) - Len(f.text)) :
       \A i \in 1..Len(f.text) :
         toLowerChar(p.localName.text[off + i]) = toLowerChar(f.text[i])

\* the running scan pass receives the advertisement of p
Discovered(p) ==
  /\ scan.pc = "scanning"
  /\ scan'.devices = Append(scan.devices, Normalized(p))

\* C13: when a name filter is given and an advertisement whose display name
\* contains the filter (case-insensitive substring) is discovered before the
\* duration timer fires, the scan resolves at that discovery event, not at
\* the timer, with exactly the devices collected so far, the matching one
\* included; an advertisement without display name never ends the scan.
C13_EarlyExit ==
  [][\A p \in Peripherals :
       Discovered(p) =>
         /\ MatchesFilter(p, scan.deviceFilter) =>
               /\ scan'.pc = "resolved"
               /\ scan'.by = "match"
               /\ ~scan'.fired
               /\ scan'.result = Append(scan.devices, Normalized(p))
         /\ ~Truthy(p.localName) => scan'.pc = "scanning"]_vars

C13_Witness ==
  /\ scan.pc = "resolved"
  /\ scan.by = "match"
  /\ ~scan.fired
  /\ scan.deviceFilter = Str(<<"l", "A", "M">>)
  /\ scan.result = <<Normalized(AnonAd), Normalized(PlugAd), Normalized(LampAd)>>


\* C14: whenever the scan has resolved (by timer or by early exit), every
\* listener it attached to the adapter (discover, scanStart, scanStop) is
\* detached and the radio is, and stays, idle (not scanning), also when the
\* scan start requested from the adapter takes effect only after the scan
\* resolved.
C14_ScanCleanup ==
  scan.pc = "resolved" => scan.listeners = {} /\ ~noble.scanning


\* C15: for every sequence of discover events delivered during one scan
\* pass, repeated advertisements of the same peripheral included, the
\* returned sequence holds each normalized device identifier at most once.
C15_NoDuplicates ==
  scan.pc = "resolved" =>
    \A i, j \in 1..Len(scan.result) :
      i # j => scan.result[i].address # scan.result[j].address


\* C16: every scanDevices call settles no later than the firing of its
\* duration timer, and resolve is called at most once even when a matching
\* discover event and the timer both occur.
C16_ScanSettlesOnce ==
  /\ [](scan.resolves <= 1)
  /\ [](scan.fired => scan.pc \in {"resolved", "rejected"})
  /\ (scan.pc = "scanning" ~> scan.pc = "resolved")

C16_Witness ==
  /\ scan.pc = "resolved"
  /\ scan.by = "match"
  /\ scan.fired
  /\ scan.resolves = 1


GateSettled == gate.pc \in {"resolved", "rejected"}

\* C17: init settles exactly once. It resolves at once if the adapter is
\* already powered on; otherwise the first power-state change it observes
\* decides: success if that state is poweredOn, failure for any other
\* state, without waiting further. Once it has settled its listener is
\* detached and later state changes have no effect on it.
C17_RadioGate ==
  /\ [](gate.settles <= 1)
  /\ [](GateSettled => gate.settles = 1 /\ ~gate.listener)
  /\ [][/\ gate.pc = "idle" /\ gate'.pc # "idle" =>
             gate'.pc = IF noble.state = "poweredOn"
                        THEN "resolved" ELSE "waiting"
        /\ gate.pc = "waiting" /\ noble'.state # noble.state =>
             gate'.pc = IF noble'.state = "poweredOn"
                        THEN "resolved" ELSE "rejected"
        /\ GateSettled => gate' = gate]_vars

C17_Witness ==
  /\ gate.pc = "rejected"
  /\ gate.at = "unknown"
  /\ gate.first = "poweredOff"
  /\ noble.state = "poweredOn"


\* C18: after disconnect() has completed, from any reachable state
\* (connected, or already disconnected after a link loss or a failed write),
\* no control characteristic is selected, the set of discovered
\* characteristics is empty and no health monitor is running; an active
\* disconnect is issued to the peripheral only if the session was connected.
C18_DisconnectClears ==
  [][/\ discStreak' >= 1 =>
          /\ selectedCharacteristic' = Null
          /\ characteristics' = {}
          /\ ~connectionMonitorInterval'
     /\ HostDisconnect /\ ~isConnected =>
          disconnectWaiters' = disconnectWaiters]_vars


\* a readLampState call returns (or raises) in this step
ReadReturns == read'.pc \in {"done", "raised"} /\ read' # read

\* C19: readLampState has the bounded retry of the write commands: on a
\* read failure, NotConnected included, it invokes the reconnection
\* supervisor and reads again before it returns unknown.
C19_ReadRetries ==
  [][ReadReturns =>
       /\ read'.failure = "ReadError" => read'.reads >= 2
       /\ (/\ read'.failure = "NotConnected"
           /\ autoReconnectEnabled /\ targetPeripheral # Null
           /\ ~isReconnecting)
            => isReconnecting']_vars

\* C20: readLampState returns on iff the read succeeded with non-empty data
\* whose first byte is 1, off iff it succeeded with non-empty data whose
\* first byte is anything else, and unknown in every other case (not
\* connected, no characteristic selected, no read method, read error, empty
\* data); it never raises.
C20_ReadMapping ==
  /\ read.pc # "raised"
  /\ read.pc = "done" =>
       LET good == read.answered /\ ~read.error /\ Len(read.data) > 0
       IN  /\ read.result = "on" <=> good /\ read.data[1] = 1
           /\ read.result = "off" <=> good /\ read.data[1] # 1
           /\ read.result = "unknown" <=> ~good


\* this step calls char.write
WriteIssued == cmd'.pc = "write" /\ cmd' # cmd

\* C21: every write issued by turnLampOn, its retries included, carries
\* exactly the single byte 0x01 and every write issued by turnLampOff exactly
\* the single byte 0x00, always addressed to the characteristic that is
\* selected at that moment.
C21_CommandPayloads ==
  [][WriteIssued =>
       /\ cmd'.op = "on" => cmd'.sent.data = <<1>>
       /\ cmd'.op = "off" => cmd'.sent.data = <<0>>
       /\ cmd'.op \in {"on", "off"}
       /\ cmd'.sent.char = selectedCharacteristic'
       /\ cmd'.sent.char # Null]_vars

\* turnLampOff is writing for the second time, after a failed write and a
\* reconnection
C21_Witness ==
  /\ cmd.pc = "write"
  /\ cmd.op = "off"
  /\ cmd.retry = 1
  /\ cmd.failed = 1
  /\ cmd.sent = [data |-> <<0>>, char |-> "ctl"]


AttemptStarts == reconnectionAttempts' = reconnectionAttempts + 1

\* C23: while automatic reconnection is disabled, no trigger (link-loss
\* event, health-monitor tick, failed or not-connected write) starts a
\* reconnection attempt, and turnLampOn / turnLampOff called on a
\* disconnected session returns false without calling connect.
C23_AutoReconnectOff ==
  [][~autoReconnectEnabled =>
       /\ ~AttemptStarts
       /\ ((turnLampOn \/ turnLampOff) /\ (~isConnected \/ peripheral = Null))
            => /\ cmd'.pc = "done"
               /\ cmd'.result = "false"
               /\ calls' = calls]_vars


\* the link was lost with automatic reconnection switched off, nothing was
\* started, and a command called afterwards returned false
C23_Witness ==
  /\ ~autoReconnectEnabled
  /\ budget.losses = 0
  /\ ~isConnected
  /\ targetPeripheral # Null
  /\ ~isReconnecting
  /\ reconnectionAttempts = 0
  /\ backoffTimers = 0
  /\ calls = <<>>
  /\ cmd.pc = "done"
  /\ cmd.switchedOff
  /\ cmd.result = "false"
  /\ cmd.writes = 0


\* connect() invocations whose onDisconnect listener is attached
DisconnectListeners(B) == {r \in DOMAIN B : HasDiscListener(r)}

\* the adapter emits 'disconnect' unasked on a session that is Connected
\* and has its onDisconnect listener attached
UnsolicitedLoss ==
  /\ LinkLoss
  /\ isConnected /\ peripheral # Null
  /\ disconnectWaiters = 0
  /\ Count(calls, DisconnectListeners(calls)) >= 1

Fields == [State EXCEPT !.discStreak = 0]

\* a tick that finds the flag saying Disconnected, or the flag saying
\* Connected while the transport reports the link as not connected
TickDetects ==
  /\ MonitorTick
  /\ \/ ~isConnected \/ peripheral = Null
     \/ linkState # "connected"

TickHealthy ==
  /\ MonitorTick
  /\ isConnected /\ peripheral # Null
  /\ linkState = "connected"

\* C25: on every tick of the health monitor, if the flag says Disconnected,
\* or the flag says Connected while the transport reports the link as not
\* connected, then, with automatic reconnection enabled, a target remembered
\* and no reconnection in progress, a reconnection attempt is started, and
\* the connection state is Disconnected afterwards; if flag and transport
\* both say connected, the tick changes no state.
C25_MonitorDetection ==
  [][/\ TickDetects =>
          /\ ~isConnected'
          /\ (/\ autoReconnectEnabled /\ ~isReconnecting
              /\ targetPeripheral # Null) => AttemptStarts
     /\ TickHealthy => Fields' = Fields]_vars

\* a tick found the link gone although no 'disconnect' event had arrived,
\* and started the first reconnection attempt
C25_Witness ==
  /\ linkState = "disconnected"
  /\ ~isConnected
  /\ peripheral = Lamp
  /\ connectionMonitorInterval
  /\ isReconnecting
  /\ reconnectionAttempts = 1
  /\ backoffTimers = 1


\* C26: in every reachable state, after any interleaving of connect,
\* reconnection successes, setConnectionMonitorInterval, link loss and
\* disconnect, at most one periodic health-check timer is active: the one
\* whose handle the controller holds.
C26_OneMonitor ==
  /\ monitorTimers <= 1
  /\ connectionMonitorInterval <=> monitorTimers = 1

\* the monitor was restarted by a reconnection and by the host's interval
\* changes and there is still exactly one timer
C26_Witness ==
  /\ monitorTimers = 1
  /\ budget.losses = 0
  /\ budget.setters = 0
  /\ Connected
  /\ monitorPeriodMs = 30000


\* C27: a write whose completion callback never fires is ended by a timeout
\* after a bounded wait, so that the command which issued it eventually
\* returns instead of hanging: a write in flight leads to the command's
\* return even when the adapter stays silent.
C27_WriteTimeout == (cmd.pc = "write") ~> (cmd.pc = "done")


Pending(B) == {r \in DOMAIN B : r.owner # "none"}

Discovering(B) == {r \in DOMAIN B : r.disc # "none"}

\* the promise of a connect() invocation is fulfilled in this step
Resolves ==
  /\ Count(calls', Pending(calls')) < Count(calls, Pending(calls))
  /\ ~AdapterConnectFail
  /\ ~ServicesFailed

\* the invocation r is the one whose promise is settled in this step
Settled(r) == r.owner # "none" /\ Copies(calls', r) < Copies(calls, r)

\* C28: connect(target) does not resolve until service discovery has
\* completed and the characteristic callback of every discovered service has
\* fired, with success or error, in whatever order the callbacks arrive: it
\* resolves in the step of the last outstanding callback, or in the step of
\* the service answer when no service was found, and a discovery never
\* waits for zero callbacks.
C28_DiscoveryJoin ==
  [][/\ \A q \in DOMAIN calls' : q.disc = "chr" => q.pend # {}
     /\ Resolves =>
          /\ \A r \in DOMAIN calls :
                Settled(r) => \/ r.disc = "svc"
                              \/ r.disc = "chr" /\ Cardinality(r.pend) = 1
          /\ Count(calls', Discovering(calls'))
               = Count(calls, Discovering(calls)) - 1]_vars

\* the host's connect() has resolved after the callbacks of both services
\* arrived, that of service 2 with an error
C28_Witness ==
  /\ budget.connects = 0
  /\ budget.faults = 0
  /\ budget.losses = DiscLosses
  /\ Count(calls, Pending(calls)) = 0
  /\ Count(calls, Discovering(calls)) = 0
  /\ isConnected
  /\ connectionMonitorInterval
  /\ characteristics = {"ctl"}
  /\ budget.twin


Range(seq) == {seq[i] : i \in DOMAIN seq}

\* a service whose characteristic callback is outstanding
Outstanding(svc) ==
  \E r \in DOMAIN calls : r.disc = "chr" /\ svc \in r.pend

\* the characteristics of the service are stored, and the control
\* characteristic is selected if the service has one
StoredAfter(svc) ==
  LET chs == Range(CharsOf(budget.twin, svc))
  IN /\ chs \subseteq characteristics'
     /\ (\E ch \in chs : IsControlUuid(ch))
          => /\ selectedCharacteristic' \in chs
             /\ IsControlUuid(selectedCharacteristic')

\* C29: a characteristic-discovery failure for one service contributes no
\* characteristic, changes no selection and does not fail the connect (the
\* invocation goes on waiting for its other services, or resolves and arms
\* the health monitor if this was the last callback); the characteristics
\* of the services that answer well are stored, and the control
\* characteristic selected, also after a failure.
C29_FailureIsolation ==
  [][/\ CharacteristicsFailed =>
          /\ characteristics' = characteristics
          /\ selectedCharacteristic' = selectedCharacteristic
          /\ rescheduleTimers' = rescheduleTimers
          /\ reconnectionDelay' = reconnectionDelay
          /\ \/ Count(calls', Pending(calls')) = Count(calls, Pending(calls))
             \/ /\ connectionMonitorInterval'
                /\ monitorTimers' = 1
                /\ Count(calls', Discovering(calls'))
                     = Count(calls, Discovering(calls)) - 1
     /\ CharacteristicsDiscovered =>
          \E svc \in Services : Outstanding(svc) /\ StoredAfter(svc)]_vars

\* the host's connect() has resolved with the control characteristic of
\* service 1 stored and selected although the callback of service 2
\* carried an error
C29_Witness ==
  /\ ~budget.twin
  /\ budget.faults = 0
  /\ budget.losses = DiscLosses
  /\ Count(calls, Pending(calls)) = 0
  /\ Count(calls, Discovering(calls)) = 0
  /\ isConnected
  /\ connectionMonitorInterval
  /\ characteristics = {"ctl"}
  /\ selectedCharacteristic = "ctl"


ControlFound(S) == \E ch \in S : IsControlUuid(ch)

\* a lamp command called on a connected session
CommandWhileConnected ==
  (turnLampOn \/ turnLampOff) /\ isConnected /\ peripheral # Null

\* C30: when a connect() resolves and its discovery has stored at least one
\* characteristic with the control UUID, selectedCharacteristic is one
\* stored characteristic with exactly that UUID, also when two of the
\* lamp's characteristics carry it; when discovery stored none and nothing
\* was selected before, selectedCharacteristic stays unset, and a
\* turnLampOn() or turnLampOff() on a connected session without a selection
\* returns false without writing.
C30_AutoSelection ==
  [][/\ (Resolves /\ ControlFound(characteristics')) =>
          /\ selectedCharacteristic' \in characteristics'
          /\ IsControlUuid(selectedCharacteristic')
     /\ (Resolves /\ ~ControlFound(characteristics')
                  /\ selectedCharacteristic = Null) =>
          selectedCharacteristic' = Null
     /\ (CommandWhileConnected /\ selectedCharacteristic = Null) =>
          /\ cmd'.pc = "done"
          /\ cmd'.result = "false"
          /\ cmd'.writes = 0]_vars

\* on a lamp with two control characteristics both services were stored,
\* service 1 last: its characteristic is the one selected, and a command
\* has written to it
C30_Witness ==
  /\ budget.twin
  /\ budget.losses = SelLosses
  /\ Count(calls, Pending(calls)) = 0
  /\ characteristics = {"aux", "ctl"}
  /\ selectedCharacteristic = "ctl"
  /\ cmd.pc = "done"
  /\ cmd.result = "true"


\* the session as the host sees it, apart from the selection
SessionFields ==
  <<characteristics, isConnected, peripheral, linkState, targetPeripheral,
    calls, connectionMonitorInterval, isReconnecting, reconnectionAttempts>>

\* C31: setLampControlCharacteristic(uuid) returns true iff a stored
\* characteristic has that UUID, and then that characteristic is the
\* selection; otherwise it returns false and the selection stays as it was;
\* in both cases the stored characteristics and the connection state are
\* unchanged.
C31_SelectByUuid ==
  [][setLampControlCharacteristic =>
       LET uuid == select'.uuid
           stored == {ch \in characteristics : Uuid(ch) = uuid}
       IN /\ uuid \in Uuids
          /\ select'.returned = IF stored # {} THEN "true" ELSE "false"
          /\ stored # {} => selectedCharacteristic' \in stored
          /\ stored = {} => selectedCharacteristic' = selectedCharacteristic
          /\ SessionFields' = SessionFields]_vars

\* the UUID was not among the stored characteristics of a session that had
\* selected the control characteristic: false is returned and the selection
\* is kept
C31_Witness ==
  /\ select = [uuid |-> OtherUuid, returned |-> "false"]
  /\ selectedCharacteristic = "ctl"
  /\ characteristics = {"ctl"}
  /\ isConnected


\* C32: the discovery state of an earlier connection does not survive a
\* (re)connect: when a connect() resolves, selectedCharacteristic, if set,
\* is one of the characteristics stored by the discovery of this
\* connection, and it is unset when that discovery stored no characteristic
\* with the control UUID.
C32_NoStaleSelection ==
  [][Resolves =>
       /\ selectedCharacteristic' # Null
            => selectedCharacteristic' \in characteristics'
       /\ ~ControlFound(characteristics')
            => selectedCharacteristic' = Null]_vars


\* a link loss on a session that the host connected after its last
\* disconnect() call
LossAfterReconnectByHost ==
  /\ UnsolicitedLoss
  /\ budget.disconnects < SupDisconnects
  /\ ~manualDisc
  /\ Count(calls, Pending(calls)) = 0
  /\ ~isReconnecting

\* C33: the reconnection ban of a manual disconnect() ends with the next
\* explicit connect(): a link loss on a session that the host connected
\* after disconnect(), with no configuration call in between, starts a
\* reconnection attempt.
C33_RearmedByConnect ==
  [][LossAfterReconnectByHost =>
       /\ AttemptStarts
       /\ isReconnecting'
       /\ backoffTimers' = backoffTimers + 1]_vars


\* the promise of a connect() invocation is rejected in this step: the
\* adapter answered peripheral.connect or discoverServices with an error
ConnectFails == AdapterConnectFail \/ ServicesFailed

\* C34: whenever connect(target) fails, by an adapter connect error or by a
\* service-discovery error, the session is not marked connected at that
\* moment.
C34_FailedConnectDisconnected == [][ConnectFails => ~isConnected']_vars


\* C35: at the moment a connect(target) resolves the session is marked
\* connected and its peripheral reference is the target, for every
\* interleaving of adapter events, a link loss during discovery included.
C35_ResolvedMeansConnected ==
  [][Resolves => isConnected' /\ peripheral' = Lamp]_vars


\* C36: while a reconnection attempt sequence is waiting its backoff delay
\* or awaiting the connect(target) it issued, isReconnecting is true.
C36_GuardOwnership == ActiveSequences >= 1 => isReconnecting


\* C37: in every state in which no connect() call is pending and the
\* session is marked connected, a health monitor is running.
C37_ConnectedMonitored ==
  (isConnected /\ Count(calls, Pending(calls)) = 0)
    => connectionMonitorInterval /\ monitorTimers = 1


\* C38: in every reachable state, isConnected implies that the peripheral
\* reference is set: the reference is never cleared while the flag is set
\* and the flag is never set without the reference.
C38_ConnectedHasPeripheral == isConnected => peripheral # Null

\* the session is marked connected, with its peripheral, after two link
\* losses and recoveries and a disconnect() call
C38_Witness ==
  /\ isConnected
  /\ peripheral = Lamp
  /\ budget.losses = 0
  /\ budget.disconnects < SupDisconnects
  /\ linkState = "connected"


ConnectListeners(B) == {r \in DOMAIN B : HasListener(r)}

\* C39: after any sequence of connect(target) calls, at most one 'connect'
\* listener and at most one 'disconnect' listener of the controller are
\* attached to the peripheral.
C39_NoListenerAccumulation ==
  /\ Count(calls, ConnectListeners(calls)) <= 1
  /\ Count(calls, DisconnectListeners(calls)) <= 1


\* duration timers of the scan that are armed and have not fired
TimersArmed ==
  (IF scan.firstTimer THEN 1 ELSE 0) + (IF scan.scanTimeout THEN 1 ELSE 0)

\* C40: a scanDevices call arms exactly one duration timer, and once the
\* scan has resolved, by its timer or by early exit, no timer of that scan
\* is still armed.
C40_NoScanTimerLeak ==
  [][/\ scanDevices => TimersArmed' = 1
     /\ scan'.pc = "resolved" => TimersArmed' = 0]_vars

====
